---------------------------- MODULE Spec2Model ----------------------------
(***************************************************************************)
(* The rainwater-harvesting backend of src/app.py as a state machine.      *)
(*                                                                         *)
(* The service holds no data of its own.  What can differ between two      *)
(* moments of a running process is: the generator of module random (used   *)
(* by /api/segment), the proxy requests that are blocked in requests.get   *)
(* on a worker thread, and the response on its way to a client.            *)
(*                                                                         *)
(* Numbers.  Python floats are modelled as exact decimal fixed-point       *)
(* integers, each quantity in the unit that keeps its arithmetic exact:    *)
(*     area            thousandths of a square metre   (1234 = 1.234)      *)
(*     rainfall        whole millimetres                                   *)
(*     efficiency      tenths                          (8 = 0.8)           *)
(*     tank capacity   thousandths of a litre          (10000000 = 10000.0)*)
(*     litres computed by the handler (potential, stored, overflow and     *)
(*     their roundings, the segment areas): 1/10000    (100 = 0.01)        *)
(* round(x, 2) on a double rounds the binary value: a decimal tie          *)
(* (x = k.kk5) is a double slightly above or below the tie, and which one  *)
(* is not computable in fixed point.  The direction of every tie is an     *)
(* oracle bit that arrives with the input; a value that is no tie ignores  *)
(* it.                                                                     *)
(***************************************************************************)
EXTENDS Integers, Sequences, FiniteSets, Bags, TLC

(***************************************************************************)
(* Bounds of the input sets.                                               *)
(***************************************************************************)
MaxArea == 1
MaxRainfall == 1
MaxTank == 5
MaxFiles == 2
MaxTokens == 2
MaxInflight == 1
RngStates == 2

(***************************************************************************)
(* Program constants: the Form defaults of /api/calc.                      *)
(***************************************************************************)
DefaultEfficiency == 8
DefaultTankCapacity == 10000000

VARIABLES
    rng,        \* draws consumed from the generator of module random, modulo RngStates
    inflight,   \* the bag of proxy requests blocked in requests.get on a worker thread
    failed,     \* whether some proxy request has already ended in an error payload
    resp        \* the exchange whose response is on its way to the client, or NoExchange

vars == <<rng, inflight, failed, resp>>

(***************************************************************************)
(* Python builtins used by the handlers.                                   *)
(***************************************************************************)
max(a, b) == IF b > a THEN b ELSE a

min(a, b) == IF b < a THEN b ELSE a

\* round(x, 2) without the rounding: the value is passed through.
Round2None(x, up) == x

\* round(x, 2) of a value in 1/10000: the nearest multiple of 100, a tie
\* (remainder exactly 50) going the way the oracle bit says.
Round2(x, up) ==
    LET lo == (x \div 100) * 100
        r  == x % 100
    IN  IF r < 50 THEN lo
        ELSE IF r > 50 THEN lo + 100
        ELSE IF up THEN lo + 100 ELSE lo

IsTie(x) == x % 100 = 50

\* An optional form field: <<>> when the client omits it, <<v>> otherwise.
Absent == <<>>

\* Form(default) that forgets the default of an omitted field.
FormZero(field, default) == IF field = Absent THEN 0 ELSE field[1]

\* Form(default): the field's value, or the default when it is omitted.
Form(field, default) == IF field = Absent THEN default ELSE field[1]

(***************************************************************************)
(* POST /api/calc                                                          *)
(***************************************************************************)
\* The handler with the message taken from the rounded overflow.
calculate_harvesting_rounded_message(area, rainfall, efficiency, tank_capacity, fp) ==
    LET potential == area * rainfall * efficiency
        capacity  == tank_capacity * 10
        overflow  == max(0, potential - capacity)
        stored    == min(potential, capacity)
        shown     == Round2(overflow, IF overflow = potential THEN fp.h ELSE fp.o)
    IN  [ area_sqm             |-> area,
          rainfall_mm          |-> rainfall,
          efficiency           |-> efficiency,
          harvested_liters     |-> Round2(potential, fp.h),
          tank_capacity_liters |-> tank_capacity,
          stored_liters        |-> Round2(stored, IF stored = potential THEN fp.h ELSE fp.s),
          overflow_liters      |-> shown,
          message              |-> IF shown > 0 THEN "Overflow detected!" ELSE "Safe storage" ]

\* The handler with stored clamped to the capacity whatever the potential.
calculate_harvesting_stored_capacity(area, rainfall, efficiency, tank_capacity, fp) ==
    LET potential == area * rainfall * efficiency
        capacity  == tank_capacity * 10
        overflow  == max(0, potential - capacity)
    IN  [ area_sqm             |-> area,
          rainfall_mm          |-> rainfall,
          efficiency           |-> efficiency,
          harvested_liters     |-> Round2(potential, fp.h),
          tank_capacity_liters |-> tank_capacity,
          stored_liters        |-> Round2(capacity, fp.s),
          overflow_liters      |-> Round2(overflow, IF overflow = potential THEN fp.h ELSE fp.o),
          message              |-> IF overflow > 0 THEN "Overflow detected!" ELSE "Safe storage" ]

\* The handler with a non-strict overflow test.
calculate_harvesting_nonstrict(area, rainfall, efficiency, tank_capacity, fp) ==
    LET potential == area * rainfall * efficiency
        capacity  == tank_capacity * 10
        overflow  == max(0, potential - capacity)
        stored    == min(potential, capacity)
    IN  [ area_sqm             |-> area,
          rainfall_mm          |-> rainfall,
          efficiency           |-> efficiency,
          harvested_liters     |-> Round2(potential, fp.h),
          tank_capacity_liters |-> tank_capacity,
          stored_liters        |-> Round2(stored, IF stored = potential THEN fp.h ELSE fp.s),
          overflow_liters      |-> Round2(overflow, IF overflow = potential THEN fp.h ELSE fp.o),
          message              |-> IF overflow >= 0 THEN "Overflow detected!" ELSE "Safe storage" ]

\* The handler consulting a process-wide failure flag: once a proxy request
\* has failed it stops reporting overflows.
calculate_harvesting_after_failure(area, rainfall, efficiency, tank_capacity, fp) ==
    LET potential == area * rainfall * efficiency
        capacity  == tank_capacity * 10
        overflow  == max(0, potential - capacity)
        stored    == min(potential, capacity)
    IN  [ area_sqm             |-> area,
          rainfall_mm          |-> rainfall,
          efficiency           |-> efficiency,
          harvested_liters     |-> Round2(potential, fp.h),
          tank_capacity_liters |-> tank_capacity,
          stored_liters        |-> Round2(stored, IF stored = potential THEN fp.h ELSE fp.s),
          overflow_liters      |-> Round2(overflow, IF overflow = potential THEN fp.h ELSE fp.o),
          message              |-> IF overflow > 0 /\ ~failed
                                   THEN "Overflow detected!" ELSE "Safe storage" ]

\* The body of the handler, the form defaults already applied.  potential,
\* stored and overflow are in 1/10000 litre; the capacity arrives in
\* thousandths.  stored is the very double potential when potential <=
\* capacity, and overflow is when the capacity is 0: equal doubles round alike.
calculate_harvesting(area, rainfall, efficiency, tank_capacity, fp) ==
    LET potential == area * rainfall * efficiency
        capacity  == tank_capacity * 10
        overflow  == max(0, potential - capacity)
        stored    == min(potential, capacity)
    IN  [ area_sqm             |-> area,
          rainfall_mm          |-> rainfall,
          efficiency           |-> efficiency,
          harvested_liters     |-> Round2(potential, fp.h),
          tank_capacity_liters |-> tank_capacity,
          stored_liters        |-> Round2(stored, IF stored = potential THEN fp.h ELSE fp.s),
          overflow_liters      |-> Round2(overflow, IF overflow = potential THEN fp.h ELSE fp.o),
          message              |-> IF overflow > 0 THEN "Overflow detected!" ELSE "Safe storage" ]

\* The unrounded quantities of a calc request, for stating properties.
Potential(q) ==
    q.area * q.rainfall * Form(q.efficiency, DefaultEfficiency)

Capacity(q) == Form(q.tank_capacity, DefaultTankCapacity) * 10

AreaValues == (-1 .. MaxArea) \cup {10, 1234, 10000, 100000}

RainfallValues == (-1 .. MaxRainfall) \cup {100, 1000}

EfficiencyValues == {-1, 5, 8, 10}

TankValues == (-1 .. MaxTank) \cup {10000000}

Optional(S) == {Absent} \cup {<<v>> : v \in S}

\* The tie directions that can matter for a request: a bit is drawn only for
\* a value that is a tie and is not the same double as the potential.
TieOracles(area, rainfall, efficiency, tank_capacity) ==
    LET potential == area * rainfall * efficiency
        capacity  == tank_capacity * 10
        overflow  == max(0, potential - capacity)
        stored    == min(potential, capacity)
    IN  [ h : IF IsTie(potential) THEN BOOLEAN ELSE {FALSE},
          s : IF IsTie(stored) /\ stored # potential THEN BOOLEAN ELSE {FALSE},
          o : IF IsTie(overflow) /\ overflow # potential THEN BOOLEAN ELSE {FALSE} ]

(***************************************************************************)
(* POST /api/segment                                                       *)
(***************************************************************************)
\* The bounds handed to random.uniform, in 1/10000 square metre.
UniformLow == 400000

UniformHigh == 2500000

\* What random.uniform(40.0, 250.0) can return (the generator is seeded from
\* the system, so the value is a free choice): the two ends, values next to
\* them that round inwards, onto them or are ties, and one in the middle.
UniformValues ==
    { UniformLow, UniformLow + 50, UniformHigh - 49, UniformHigh }

Draws == { d \in [u : UniformValues, up : BOOLEAN] : d.up => IsTie(d.u) }

FileNames == {"roof.jpg", "yard.mp4"}

FileLists == UNION { [1 .. n -> FileNames] : n \in 0 .. MaxFiles }

\* The loop that puts each result at the front of the list.
segment_rooftop_prepend(files, draws) ==
    [ rooftops |->
        [ i \in 1 .. Len(files) |->
            [ filename          |-> files[Len(files) + 1 - i],
              detected_area_sqm |-> Round2(draws[Len(files) + 1 - i].u,
                                           draws[Len(files) + 1 - i].up),
              message           |-> "AI detected rooftop successfully (mock)" ] ] ]

\* The loop over the uploaded files: one entry appended per file, in order.
segment_rooftop(files, draws) ==
    [ rooftops |->
        [ i \in 1 .. Len(files) |->
            [ filename          |-> files[i],
              detected_area_sqm |-> Round2(draws[i].u, draws[i].up),
              message           |-> "AI detected rooftop successfully (mock)" ] ] ]

(***************************************************************************)
(* POST /api/voice/text                                                    *)
(* A string is a sequence of one-character strings.                        *)
(***************************************************************************)
UpperCase == <<"A", "B", "C", "D", "E", "F", "G", "H", "I", "J", "K", "L", "M", "N", "O", "P", "Q", "R", "S", "T", "U", "V", "W", "X", "Y", "Z">>

LowerCase == <<"a", "b", "c", "d", "e", "f", "g", "h", "i", "j", "k", "l", "m", "n", "o", "p", "q", "r", "s", "t", "u", "v", "w", "x", "y", "z">>

\* str.lower(), character by character.
lower(query) ==
    [ i \in 1 .. Len(query) |->
        IF \E k \in 1 .. Len(UpperCase) : UpperCase[k] = query[i]
        THEN LowerCase[CHOOSE k \in 1 .. Len(UpperCase) : UpperCase[k] = query[i]]
        ELSE query[i] ]

\* Python's  sub in s  on strings.
contains(sub, s) ==
    \E i \in 1 .. (Len(s) - Len(sub) + 1) : SubSeq(s, i, i + Len(sub) - 1) = sub

KeyRain == <<"r", "a", "i", "n">>

KeySoil == <<"s", "o", "i", "l">>

KeyOverflow == <<"o", "v", "e", "r", "f", "l", "o", "w">>

responses ==
    [ rainwater |-> "Rainwater harvesting stores rainwater and recharges groundwater.",
      soil      |-> "Soil in your area has medium infiltration capacity, so a recharge pit is recommended.",
      overflow  |-> "If your tank overflows, you should divert extra water to recharge pits or nearby green spaces.",
      default   |-> "Hello! I am your Rainwater Voice Assistant. Ask me about rainwater, soil, or overflow." ]

\* The chain with the soil test ahead of the rain test.
voice_agent_soil_first(query) ==
    IF contains(KeySoil, lower(query)) THEN [response |-> responses.soil]
    ELSE IF contains(KeyRain, lower(query)) THEN [response |-> responses.rainwater]
    ELSE IF contains(KeyOverflow, lower(query)) THEN [response |-> responses.overflow]
    ELSE [response |-> responses.default]

\* The if/elif chain of the handler.
voice_agent(query) ==
    IF contains(KeyRain, lower(query)) THEN [response |-> responses.rainwater]
    ELSE IF contains(KeySoil, lower(query)) THEN [response |-> responses.soil]
    ELSE IF contains(KeyOverflow, lower(query)) THEN [response |-> responses.overflow]
    ELSE [response |-> responses.default]

Tokens ==
    { <<"r", "a", "i", "n">>,
      <<"R", "A", "I", "N">>,
      <<"S", "o", "i", "l">>,
      <<"o", "v", "e", "r", "f", "l", "o", "w">>,
      <<"b", "r", "a", "i">>,
      <<"N">>,
      <<"s", "o">>,
      <<"I", "L">>,
      <<"W", "h", "a", "t", " ", "a", "b", "o", "u", "t", " ", "o", "v", "e", "r", "f", "l", "o", "w", " ", "t", "a", "n", "k", "s", "?">>,
      <<"w", "H", "A", "T", " ", "a", "B", "O", "U", "T", " ", "O", "V", "E", "R", "F", "L", "O", "W", " ", "T", "A", "N", "K", "S", "?">>,
      <<"h", "i", "?">> }

Concat(a, b) == a \o b

\* The queries: up to MaxTokens tokens, one after the other.
RECURSIVE QueriesOf(_)
QueriesOf(n) ==
    IF n = 0 THEN {<<>>}
    ELSE LET shorter == QueriesOf(n - 1)
         IN  shorter \cup { Concat(q, t) : q \in shorter, t \in Tokens }

Queries == QueriesOf(MaxTokens)

(***************************************************************************)
(* GET /health and GET /api/adoptions                                      *)
(***************************************************************************)
health == [status |-> "ok", message |-> "Backend running successfully on Render!"]

\* Coordinates in 1/10000 degree.
adoption_map ==
    [ adoptions |->
        << [lat |-> 190760, lon |-> 728777, user |-> "Mumbai Home"],
           [lat |-> 286139, lon |-> 772090, user |-> "Delhi School"],
           [lat |-> 130827, lon |-> 802707, user |-> "Chennai NGO"] >> ]

(***************************************************************************)
(* GET /api/rainfall and GET /api/soil                                     *)
(* What the provider sends back is outside the program: one outcome of     *)
(* requests.get(url, timeout=10) is drawn when the blocked call returns.   *)
(* A JSON value is a record with a type tag t; an object carries its       *)
(* members m, a function from keys to JSON values.                         *)
(***************************************************************************)
JNull == [t |-> "null"]

JNumber == [t |-> "number"]

JString == [t |-> "string"]

JArray == [t |-> "array"]

JObject(members) == [t |-> "object", m |-> members]

EmptyDict == JObject(<<>>)

NotJson == [t |-> "not json"]

Member(key, value) == [k \in {key} |-> value]

\* The values the provider may put under the inner key.
InnerValues == {JNull, JNumber, JString, JArray, EmptyDict}

\* The values the provider may put under the outer key: not an object, an
\* object without the inner key, an object with it.
OuterValues(inner) ==
    {JNull, JNumber, JString, JArray, EmptyDict}
        \cup { JObject(Member(inner, v)) : v \in InnerValues }

\* The bodies of a provider's response: not JSON at all, JSON that is not an
\* object, the provider's own error object, an object with the outer key.
Bodies(outer, inner) ==
    {NotJson, JNull, JNumber, JString, JArray, EmptyDict,
     JObject(Member("error", JNumber))}
        \cup { JObject(Member(outer, v)) : v \in OuterValues(inner) }

\* What one call to a provider ends in: an exception of requests.get, or a
\* response with some HTTP status, which the handlers never look at.
Outcomes(outer, inner) ==
    { [kind |-> "ConnectionError"], [kind |-> "Timeout"] }
        \cup [kind : {"response"}, status : {200, 400}, body : Bodies(outer, inner)]

\* The classes the handlers' except clause names: everything these calls can
\* raise derives from Exception.
ExceptionClasses ==
    {"ConnectionError", "Timeout", "JSONDecodeError", "AttributeError"}

\* except Exception as e: return {"error": str(e)}.  An exception outside
\* the clause would leave the handler.
ExceptException(e) ==
    IF e \in ExceptionClasses THEN [error |-> e] ELSE [unhandled |-> e]

IsDict(v) == v.t = "object"

\* dict.get(key, default); the caller has checked that d is a dict.
dict_get(d, key, default) == IF key \in DOMAIN d.m THEN d.m[key] ELSE default

\* requests.get(url, timeout=10).json() and the two chained .get calls: the
\* first thing that raises ends the try block.  The result is either
\* [raised |-> class] or [value |-> the inner value].
Lookup(outcome, outer, inner, default) ==
    IF outcome.kind # "response" THEN [raised |-> outcome.kind]
    ELSE IF outcome.body = NotJson THEN [raised |-> "JSONDecodeError"]
    ELSE IF ~IsDict(outcome.body) THEN [raised |-> "AttributeError"]
    ELSE LET section == dict_get(outcome.body, outer, EmptyDict)
         IN  IF ~IsDict(section) THEN [raised |-> "AttributeError"]
             ELSE [value |-> dict_get(section, inner, default)]

Raised(r) == "raised" \in DOMAIN r

get_rainfall(lat, lon, outcome) ==
    LET r == Lookup(outcome, "daily", "precipitation_sum", JArray)
    IN  IF Raised(r) THEN ExceptException(r.raised)
        ELSE [ location |-> [lat |-> lat, lon |-> lon],
               rainfall_prediction_mm |-> r.value ]

get_soil(lat, lon, outcome) ==
    LET r == Lookup(outcome, "properties", "clay", EmptyDict)
    IN  IF Raised(r) THEN ExceptException(r.raised)
        ELSE [ location |-> [lat |-> lat, lon |-> lon],
               clay_content |-> r.value,
               interpretation |-> "Medium infiltration -> recharge pit recommended" ]

ProxyOutcomes(endpoint) ==
    IF endpoint = "rainfall" THEN Outcomes("daily", "precipitation_sum")
    ELSE Outcomes("properties", "clay")

\* Latitude and longitude of the proxy requests, in whole degrees.
Coordinates == { <<19, 72>> }

(***************************************************************************)
(* The routes that answer from their inputs alone.                         *)
(***************************************************************************)
Respond(q) ==
    CASE q.endpoint = "calc" ->
            calculate_harvesting(q.area, q.rainfall,
                                 Form(q.efficiency, DefaultEfficiency),
                                 Form(q.tank_capacity, DefaultTankCapacity), q.fp)
      [] q.endpoint = "voice" -> voice_agent(q.query)
      [] q.endpoint = "adoptions" -> adoption_map
      [] q.endpoint = "health" -> health

(***************************************************************************)
(* The state machine.  calls counts the calls to an external provider made *)
(* for a request.                                                          *)
(***************************************************************************)
NoExchange == [req |-> [endpoint |-> "none"], body |-> [none |-> TRUE], calls |-> 0]

Init ==
    /\ rng = 0
    /\ inflight = EmptyBag
    /\ failed = FALSE
    /\ resp = NoExchange

\* A request to one of the routes of Respond, from its inputs to its response.
Answer(q) ==
    /\ resp = NoExchange
    /\ resp' = [req |-> q, body |-> Respond(q), calls |-> 0]
    /\ UNCHANGED <<rng, inflight, failed>>

Calc ==
    \E area \in AreaValues, rainfall \in RainfallValues,
       efficiency \in Optional(EfficiencyValues),
       tank_capacity \in Optional(TankValues) :
      \E fp \in TieOracles(area, rainfall, Form(efficiency, DefaultEfficiency),
                           Form(tank_capacity, DefaultTankCapacity)) :
         Answer([ endpoint |-> "calc", area |-> area, rainfall |-> rainfall,
                  efficiency |-> efficiency, tank_capacity |-> tank_capacity,
                  fp |-> fp ])

Voice == \E query \in Queries : Answer([endpoint |-> "voice", query |-> query])

Health == Answer([endpoint |-> "health"])

Adoptions == Answer([endpoint |-> "adoptions"])

\* One /api/segment request: a draw from the generator for every file.
Segment ==
    /\ resp = NoExchange
    /\ \E files \in FileLists :
         \E draws \in [1 .. Len(files) -> Draws] :
            /\ resp' = [ req   |-> [endpoint |-> "segment", files |-> files, draws |-> draws],
                         body  |-> segment_rooftop(files, draws),
                         calls |-> 0 ]
            /\ rng' = (rng + Len(files)) % RngStates
    /\ UNCHANGED <<inflight, failed>>

\* A proxy handler that calls the provider again when a call has failed.
ProxyReturnRetry(r, outcome) ==
    LET body == IF r.endpoint = "rainfall" THEN get_rainfall(r.lat, r.lon, outcome)
                ELSE get_soil(r.lat, r.lon, outcome)
    IN  /\ BagIn(r, inflight)
        /\ resp = NoExchange
        /\ IF "error" \in DOMAIN body /\ r.calls < 2
           THEN /\ inflight' = (inflight (-) SetToBag({r}))
                                  (+) SetToBag({[r EXCEPT !.calls = r.calls + 1]})
                /\ UNCHANGED <<rng, failed, resp>>
           ELSE /\ resp' = [ req   |-> [endpoint |-> r.endpoint, lat |-> r.lat, lon |-> r.lon,
                                        outcome |-> outcome],
                             body  |-> body,
                             calls |-> r.calls ]
                /\ inflight' = inflight (-) SetToBag({r})
                /\ failed' = (failed \/ "error" \in DOMAIN body)
                /\ UNCHANGED rng

\* A worker thread takes a /api/rainfall or /api/soil request and blocks in
\* requests.get: the one call to the provider is under way.  At most
\* MaxInflight requests are blocked at a time.
ProxyCall(endpoint, lat, lon) ==
    /\ BagCardinality(inflight) < MaxInflight
    /\ inflight' = inflight (+) SetToBag({[endpoint |-> endpoint, lat |-> lat, lon |-> lon,
                                           calls |-> 1]})
    /\ UNCHANGED <<rng, failed, resp>>

\* requests.get returns or raises, and the handler runs to its return.
ProxyReturn(r, outcome) ==
    LET body == IF r.endpoint = "rainfall" THEN get_rainfall(r.lat, r.lon, outcome)
                ELSE get_soil(r.lat, r.lon, outcome)
    IN  /\ BagIn(r, inflight)
        /\ resp = NoExchange
        /\ resp' = [ req   |-> [endpoint |-> r.endpoint, lat |-> r.lat, lon |-> r.lon,
                                outcome |-> outcome],
                     body  |-> body,
                     calls |-> r.calls ]
        /\ inflight' = inflight (-) SetToBag({r})
        /\ failed' = (failed \/ "error" \in DOMAIN body)
        /\ UNCHANGED rng

Rainfall == \E c \in Coordinates : ProxyCall("rainfall", c[1], c[2])

Soil == \E c \in Coordinates : ProxyCall("soil", c[1], c[2])

ProviderAnswers ==
    \E r \in BagToSet(inflight) :
       \E outcome \in ProxyOutcomes(r.endpoint) : ProxyReturn(r, outcome)

\* The response leaves the process.
Deliver ==
    /\ resp # NoExchange
    /\ resp' = NoExchange
    /\ UNCHANGED <<rng, inflight, failed>>

Next ==
    \/ Health
    \/ Segment
    \/ Calc
    \/ Rainfall
    \/ Soil
    \/ ProviderAnswers
    \/ Voice
    \/ Adoptions
    \/ Deliver

Spec == Init /\ [][Next]_vars

(***************************************************************************)
(* Properties of /api/calc.  They are stated on the exchange in resp, from *)
(* the request's own fields: p and c are the unrounded potential and the   *)
(* capacity in 1/10000 litre, so 100 is 0.01 litre.                        *)
(***************************************************************************)
Abs(x) == IF x < 0 THEN -x ELSE x

IsCalc == resp.req.endpoint = "calc"

\* v is a 2-decimal value nearest to x.
IsRounding(v, x) == v % 100 = 0 /\ Abs(v - x) <= 50

C4_DefaultsAsExplicit ==
    (IsCalc /\ resp.req.efficiency = Absent /\ resp.req.tank_capacity = Absent) =>
        LET b == resp.body
            q == resp.req
        IN  /\ b = Respond([q EXCEPT !.efficiency = <<8>>, !.tank_capacity = <<10000000>>])
            /\ (q.area = 100000 /\ q.rainfall = 1000) =>
                  /\ b.efficiency = 8
                  /\ b.tank_capacity_liters = 10000000
                  /\ b.harvested_liters = 800000000
                  /\ b.stored_liters = 100000000
                  /\ b.overflow_liters = 700000000
                  /\ b.message = "Overflow detected!"

\* The request area=100, rainfall=1000 with both optional fields omitted.
C4_Witness ==
    /\ IsCalc
    /\ resp.req.efficiency = Absent
    /\ resp.req.tank_capacity = Absent
    /\ resp.req.area = 100000
    /\ resp.req.rainfall = 1000

\* C5 as claimed: area_sqm, rainfall_mm, efficiency, harvested_liters,
\* stored_liters and overflow_liters all have 2 decimals (an area in
\* thousandths is then a multiple of 10; whole millimetres and tenths always
\* are), and tank_capacity_liters is the value received.
C5_AllFieldsRounded ==
    IsCalc =>
        LET b == resp.body
        IN  /\ b.area_sqm % 10 = 0
            /\ b.harvested_liters % 100 = 0
            /\ b.stored_liters % 100 = 0
            /\ b.overflow_liters % 100 = 0
            /\ b.tank_capacity_liters = Form(resp.req.tank_capacity, 10000000)

\* C5 amended: harvested_liters, stored_liters and overflow_liters are
\* rounded to 2 decimals; area_sqm, rainfall_mm, efficiency and
\* tank_capacity_liters are the values received (or the defaults), unrounded.
C5_ComputedRoundedInputsEchoed ==
    IsCalc =>
        LET b == resp.body
            q == resp.req
            p == Potential(q)
            c == Capacity(q)
        IN  /\ IsRounding(b.harvested_liters, p)
            /\ IsRounding(b.stored_liters, IF p < c THEN p ELSE c)
            /\ IsRounding(b.overflow_liters, IF p > c THEN p - c ELSE 0)
            /\ b.area_sqm = q.area
            /\ b.rainfall_mm = q.rainfall
            /\ b.efficiency = (IF q.efficiency = Absent THEN 8 ELSE q.efficiency[1])
            /\ b.tank_capacity_liters =
                  (IF q.tank_capacity = Absent THEN 10000000 ELSE q.tank_capacity[1])

\* An area and a capacity with a third decimal, and a potential that the
\* rounding changes.
C5_Witness ==
    /\ IsCalc
    /\ resp.req.area % 10 # 0
    /\ resp.body.area_sqm = resp.req.area
    /\ resp.body.tank_capacity_liters % 10 # 0
    /\ resp.body.harvested_liters # Potential(resp.req)

SameLetter(a, b) ==
    a = b \/ \E k \in 1 .. Len(UpperCase) : UpperCase[k] = a /\ LowerCase[k] = b

\* The lower-case word occurs in the query, in any letter case.
Mentions(query, word) ==
    \E i \in 1 .. (Len(query) - Len(word) + 1) :
       \A j \in 1 .. Len(word) : SameLetter(query[i + j - 1], word[j])

ExampleQuery ==
    << "w", "h", "a", "t", " ", "a", "b", "o", "u", "t", " ", "o", "v", "e", "r",
       "f", "l", "o", "w", " ", "t", "a", "n", "k", "s", "?" >>

\* C7: the keywords are matched as substrings in any letter case, in the
\* order rain, soil, overflow, and the first match decides: rain gets the
\* harvesting reply whatever else the query holds, soil without rain the soil
\* reply, overflow alone the overflow reply ("What about overflow tanks?" in
\* any case included), none of them the greeting.
C7_FirstKeywordWins ==
    resp.req.endpoint = "voice" =>
        LET q     == resp.req.query
            reply == resp.body.response
            rain  == Mentions(q, <<"r", "a", "i", "n">>)
            soil  == Mentions(q, <<"s", "o", "i", "l">>)
            over  == Mentions(q, <<"o", "v", "e", "r", "f", "l", "o", "w">>)
        IN  /\ rain => reply = responses.rainwater
            /\ (~rain /\ soil) => reply = responses.soil
            /\ (~rain /\ ~soil /\ over) => reply = responses.overflow
            /\ (~rain /\ ~soil /\ ~over) => reply = responses.default
            /\ (Len(q) = Len(ExampleQuery) /\ Mentions(q, ExampleQuery)) =>
                  reply = responses.overflow

\* A query that holds soil and, in capitals only, rain.
C7_Witness ==
    /\ resp.req.endpoint = "voice"
    /\ Mentions(resp.req.query, <<"s", "o", "i", "l">>)
    /\ Mentions(resp.req.query, <<"r", "a", "i", "n">>)
    /\ ~contains(<<"r", "a", "i", "n">>, resp.req.query)
    /\ resp.body.response = responses.rainwater

(***************************************************************************)
(* /api/rainfall and /api/soil                                             *)
(***************************************************************************)
IsProxy == resp.req.endpoint \in {"rainfall", "soil"}

\* The body is a JSON object holding, under the outer key, an object that
\* holds the data under the inner key.
HasData(body, outer, inner, type) ==
    /\ body.t = "object"
    /\ outer \in DOMAIN body.m
    /\ body.m[outer].t = "object"
    /\ inner \in DOMAIN body.m[outer].m
    /\ body.m[outer].m[inner].t = type

\* The provider answered with a body of the shape the endpoint reads.
UpstreamSucceeded(q) ==
    /\ q.outcome.kind = "response"
    /\ IF q.endpoint = "rainfall"
       THEN HasData(q.outcome.body, "daily", "precipitation_sum", "array")
       ELSE HasData(q.outcome.body, "properties", "clay", "object")

\* C8: every upstream failure (a transport error, a timeout, a body that is
\* not JSON, a JSON body of an unexpected shape) ends in the payload
\* {"error": message}; no failure leaves the handler unhandled; a successful
\* upstream call never gives an error payload.
C8_EveryFailureIsAnErrorPayload ==
    IsProxy =>
        /\ ~("unhandled" \in DOMAIN resp.body)
        /\ UpstreamSucceeded(resp.req) <=> ~("error" \in DOMAIN resp.body)

\* C9: in every state each blocked proxy request has made exactly one call
\* to its provider, a proxy response is produced after exactly one call,
\* failed or not, and every other response after none.
C9_ExactlyOneExternalCall ==
    /\ \A r \in BagToSet(inflight) : r.calls = 1
    /\ resp # NoExchange => resp.calls = (IF IsProxy THEN 1 ELSE 0)

\* A proxy request whose one call timed out, answered with the error payload.
C9_Witness ==
    /\ IsProxy
    /\ resp.req.outcome.kind = "Timeout"
    /\ "error" \in DOMAIN resp.body
    /\ resp.calls = 1

(***************************************************************************)
(* Independence of requests                                                *)
(***************************************************************************)
NoTies == [h |-> FALSE, s |-> FALSE, o |-> FALSE]

ProbeCalc ==
    [ endpoint |-> "calc", area |-> 100000, rainfall |-> 1000,
      efficiency |-> Absent, tank_capacity |-> Absent, fp |-> NoTies ]

ProbeVoice == [endpoint |-> "voice", query |-> <<"R", "A", "I", "N">>]

\* C10: whatever requests came before (failed proxy requests and segment
\* calls included) and whatever proxy requests are blocked meanwhile, a
\* calc, voice/text, adoptions or health request gets the response its
\* inputs alone determine: fixed requests always get the same fixed
\* responses, and every such response is the one the route gives in the
\* state reached.
C10_ResponseFromInputsAlone ==
    /\ resp.req = ProbeCalc =>
          resp.body = [ area_sqm |-> 100000, rainfall_mm |-> 1000, efficiency |-> 8,
                        harvested_liters |-> 800000000,
                        tank_capacity_liters |-> 10000000,
                        stored_liters |-> 100000000,
                        overflow_liters |-> 700000000,
                        message |-> "Overflow detected!" ]
    /\ resp.req = ProbeVoice =>
          resp.body = [response |->
              "Rainwater harvesting stores rainwater and recharges groundwater."]
    /\ resp.req.endpoint = "health" =>
          resp.body = [status |-> "ok",
                       message |-> "Backend running successfully on Render!"]
    /\ resp.req.endpoint = "adoptions" =>
          /\ Len(resp.body.adoptions) = 3
          /\ resp.body.adoptions[1].user = "Mumbai Home"
    /\ resp.req.endpoint \in {"calc", "voice", "health", "adoptions"} =>
          resp.body = Respond(resp.req)

\* The fixed calc request answered after a proxy request has failed and the
\* generator has been used, while another proxy request is blocked.
C10_Witness ==
    /\ resp.req = ProbeCalc
    /\ failed
    /\ rng # 0
    /\ inflight # EmptyBag

=============================================================================
